---------------------------- MODULE Spec2Model ----------------------------
(***************************************************************************)
(* Model of .github/actions/terraform-dependency-sort/main.py: the         *)
(* dependency graph of Terraform stacks, its construction from             *)
(* dependencies.json manifests, the cycle-detecting resolution pass        *)
(* (Node.dep_resolve) and the post-order topological sort.                 *)
(*                                                                         *)
(* Nodes are referred to by name; stacks_dict is the insertion-ordered     *)
(* Python dict, kept as the sequence of its values.                        *)
(***************************************************************************)
EXTENDS Naturals, Sequences, FiniteSets

\* The stack paths "./<relpath>" that may occur on disk or in a manifest.
Stacks == {"./stack1", "./stack2", "./stack3"}

\* Bound on the number of dependency paths over all ingested manifests.
MaxEdges == 4

\* Bound on the number of resolution passes a caller runs in one process.
MaxPasses == 2

VARIABLES
    dirs,          \* the stack paths that are directories under start_dir
    manifests,     \* the directories among them that hold a dependencies.json
    json_files,    \* the files found by find_dependencies_json_files, not yet ingested
    stacks_dict,   \* name -> Node, in insertion order
    resolved,      \* the list given to dep_resolve by the current pass
    seen,          \* the default-argument list of Node.dep_resolve (one per process)
    idx,           \* position of the resolution loop in stacks_dict.values()
    passes,        \* number of resolution passes started
    sorted_nodes,  \* result of topological_sort
    visit_calls,   \* number of calls of visit() made by topological_sort
    stdout,        \* the orderings printed
    error,         \* the exception that ended the run, if any
    pc             \* position of the program

vars == <<dirs, manifests, json_files, stacks_dict, resolved, seen, idx, passes,
          sorted_nodes, visit_calls, stdout, error, pc>>

----------------------------------------------------------------------------
\* Sequences and exceptions

In(x, s) == \E i \in 1..Len(s) : s[i] = x

Count(x, s) == Cardinality({i \in 1..Len(s) : s[i] = x})

SeqsUpTo(S, n) == UNION {[1..k -> S] : k \in 0..n}

NoError == [kind |-> "none", n |-> "", e |-> ""]

\* Exception("Circular reference detected: {self.name} -> {edge.name}")
CircularDependency(self, edge) ==
    [kind |-> "Circular reference detected", n |-> self, e |-> edge]

\* Exception("Unknown dependency detected: non-existent {dep} found in {stack_dir}/dependencies.json")
UnknownDependency(dep, stack_dir) ==
    [kind |-> "Unknown dependency detected", n |-> stack_dir, e |-> dep]

\* json.load failing, or data["dependencies"]["paths"] missing
ManifestError(stack_dir) ==
    [kind |-> "manifest", n |-> stack_dir, e |-> ""]

----------------------------------------------------------------------------
\* class Node and the dict of nodes

verify_dir_exists(name, base_dir) == name \in base_dir

Node(name, base_dir) ==
    [name |-> name, edges |-> <<>>, valid_dir |-> verify_dir_exists(name, base_dir)]

Has(sd, name) == \E i \in 1..Len(sd) : sd[i].name = name

IndexOf(sd, name) == CHOOSE i \in 1..Len(sd) : sd[i].name = name

NodeOf(sd, name) == sd[IndexOf(sd, name)]

Keys(sd) == {sd[i].name : i \in 1..Len(sd)}

\* stacks_dict[name] = Node(name, base_dir), when name is not a key yet
setdefault(sd, name, base_dir) ==
    IF Has(sd, name) THEN sd ELSE Append(sd, Node(name, base_dir))

add_edge(sd, name, edge) ==
    [sd EXCEPT ![IndexOf(sd, name)].edges = Append(@, edge)]

TotalEdges(sd) ==
    LET RECURSIVE Sum(_)
        Sum(i) == IF i = 0 THEN 0 ELSE Len(sd[i].edges) + Sum(i - 1)
    IN Sum(Len(sd))

----------------------------------------------------------------------------
\* Ingestion

\* What a dependencies.json holds: a list of paths, or something json.load
\* or the ["dependencies"]["paths"] lookup rejects.
Contents(n) ==
    {[ok |-> TRUE, paths |-> p] : p \in SeqsUpTo(Stacks, n)}
        \cup {[ok |-> FALSE, paths |-> <<>>]}

extract_dependencies_from_file(file_path, content) ==
    IF content.ok
    THEN [error |-> NoError, paths |-> content.paths]
    ELSE [error |-> ManifestError(file_path), paths |-> <<>>]

\* Mutant: the valid_dir test is lost, no dependency is ever unknown.
dep_is_unknown_never(sd, dep) == FALSE

\* "if not stacks_dict[dep].valid_dir"
dep_is_unknown(sd, dep) == ~NodeOf(sd, dep).valid_dir

\* Mutant: the edge is added before valid_dir is tested.
RECURSIVE add_dependencies_edge_first(_, _, _, _)
add_dependencies_edge_first(stack_dir, dependencies, sd, base_dir) ==
    IF dependencies = <<>>
    THEN [stacks_dict |-> sd, error |-> NoError]
    ELSE LET dep == Head(dependencies)
             sd1 == add_edge(setdefault(sd, dep, base_dir), stack_dir, dep)
         IN IF dep_is_unknown(sd1, dep)
            THEN [stacks_dict |-> sd1, error |-> UnknownDependency(dep, stack_dir)]
            ELSE add_dependencies_edge_first(stack_dir, Tail(dependencies),
                                             sd1, base_dir)

\* "for dep in dependencies:", from the dependencies still to do

RECURSIVE add_dependencies(_, _, _, _)
add_dependencies(stack_dir, dependencies, sd, base_dir) ==
    IF dependencies = <<>>
    THEN [stacks_dict |-> sd, error |-> NoError]
    ELSE LET dep == Head(dependencies)
             sd1 == setdefault(sd, dep, base_dir)
         IN IF dep_is_unknown(sd1, dep)
            THEN [stacks_dict |-> sd1, error |-> UnknownDependency(dep, stack_dir)]
            ELSE add_dependencies(stack_dir, Tail(dependencies),
                                  add_edge(sd1, stack_dir, dep), base_dir)

create_nodes_from_dep_file(stack_dir, dependencies, sd, base_dir) ==
    add_dependencies(stack_dir, dependencies,
                     setdefault(sd, stack_dir, base_dir), base_dir)

\* os.walk(start_dir), keeping the directories that list "dependencies.json".
\* The order os.walk yields them in is the file system's; the ingestion loop
\* below therefore takes the files in any order.
find_dependencies_json_files(start_dir, with_file) ==
    {d \in start_dir : d \in with_file}

----------------------------------------------------------------------------
\* Node.dep_resolve

\* Mutant: seen is taken for a visited set, an edge into it is passed over.
skip_edge_seen(edge, resolved_, seen_) == In(edge, resolved_) \/ In(edge, seen_)

\* Mutant: the test against resolved is lost.
skip_edge_never(edge, resolved_, seen_) == FALSE

\* "if edge not in resolved" (negated: the edge is passed over)
skip_edge(edge, resolved_, seen_) == In(edge, resolved_)

\* "if edge in seen"
in_progress(edge, seen_) == In(edge, seen_)

RECURSIVE dep_resolve(_, _, _, _)
RECURSIVE resolve_edges(_, _, _, _, _)

\* self.dep_resolve(resolved, seen): the lists after the call, and the
\* exception it raised, if any.
dep_resolve(sd, self, resolved_, seen_) ==
    LET r == resolve_edges(sd, self, NodeOf(sd, self).edges,
                           resolved_, Append(seen_, self))
    IN IF r.error # NoError
       THEN r
       ELSE [r EXCEPT !.resolved = Append(@, self)]

\* "for edge in self.edges:", from the edges still to do
resolve_edges(sd, self, todo, resolved_, seen_) ==
    IF todo = <<>>
    THEN [resolved |-> resolved_, seen |-> seen_, error |-> NoError]
    ELSE LET edge == Head(todo)
         IN IF skip_edge(edge, resolved_, seen_)
            THEN resolve_edges(sd, self, Tail(todo), resolved_, seen_)
            ELSE IF in_progress(edge, seen_)
            THEN [resolved |-> resolved_, seen |-> seen_,
                  error |-> CircularDependency(self, edge)]
            ELSE LET r == dep_resolve(sd, edge, resolved_, seen_)
                 IN IF r.error # NoError
                    THEN r
                    ELSE resolve_edges(sd, self, Tail(todo), r.resolved, r.seen)

----------------------------------------------------------------------------
\* topological_sort

\* Mutant: the append is outside the test, a node met again is appended again.
visit_again_appends(node, st) == [st EXCEPT !.sorted_nodes = Append(@, node)]

\* visit(): "if node in visited: return"
visit_again(node, st) == st

\* visit(): "visited.add(node)"
mark_visited(node, st) == [st EXCEPT !.visited = @ \cup {node}]

\* Mutant: sorted_nodes.insert(0, node), dependents first.
emit_node_first(node, st) == [st EXCEPT !.sorted_nodes = <<node>> \o @]

\* visit(): "sorted_nodes.append(node)"
emit_node(node, st) == [st EXCEPT !.sorted_nodes = Append(@, node)]

RECURSIVE visit(_, _, _)
RECURSIVE visit_edges(_, _, _)

visit(sd, node, st) ==
    LET st0 == [st EXCEPT !.calls = @ + 1]
    IN IF node \in st0.visited
       THEN visit_again(node, st0)
       ELSE emit_node(node,
                visit_edges(sd, NodeOf(sd, node).edges, mark_visited(node, st0)))

\* "for edge in node.edges: visit(edge)" and "for node in nodes: visit(node)"
visit_edges(sd, todo, st) ==
    IF todo = <<>>
    THEN st
    ELSE visit_edges(sd, Tail(todo), visit(sd, Head(todo), st))

NodeNames(sd) == [i \in 1..Len(sd) |-> sd[i].name]

topological_sort(sd) ==
    visit_edges(sd, NodeNames(sd),
                [sorted_nodes |-> <<>>, visited |-> {}, calls |-> 0])

----------------------------------------------------------------------------
\* The program: __main__

\* Where the run stands once no iteration of the ingestion loop is left:
\* the resolution loop, or past it when stacks_dict is empty.
AfterIngest(files, sd) ==
    IF files # {} THEN "ingest"
    ELSE IF Len(sd) = 0 THEN "sort" ELSE "resolve"

Init ==
    /\ dirs \in SUBSET Stacks
    /\ manifests \in SUBSET dirs
    /\ json_files = find_dependencies_json_files(dirs, manifests)
    /\ stacks_dict = <<>>
    /\ resolved = <<>>
    /\ seen = <<>>
    /\ idx = 1
    /\ passes = 1
    /\ sorted_nodes = <<>>
    /\ visit_calls = 0
    /\ stdout = <<>>
    /\ error = NoError
    /\ pc = AfterIngest(json_files, stacks_dict)

\* One iteration of "for file_path in json_files:".
Ingest ==
    /\ pc = "ingest"
    /\ \E stack_dir \in json_files :
       \E content \in Contents(MaxEdges - TotalEdges(stacks_dict)) :
          LET x == extract_dependencies_from_file(stack_dir, content)
              r == create_nodes_from_dep_file(stack_dir, x.paths, stacks_dict, dirs)
              raised == IF x.error # NoError THEN x.error ELSE r.error
          IN /\ json_files' = json_files \ {stack_dir}
             /\ stacks_dict' = IF x.error # NoError THEN stacks_dict ELSE r.stacks_dict
             /\ error' = raised
             /\ pc' = IF raised # NoError
                      THEN "error"
                      ELSE AfterIngest(json_files', stacks_dict')
    /\ UNCHANGED <<dirs, manifests, resolved, seen, idx, passes,
                   sorted_nodes, visit_calls, stdout>>

\* Mutant: an exception of dep_resolve is swallowed and the loop goes on.
ResolveSwallowing ==
    /\ pc = "resolve"
    /\ idx <= Len(stacks_dict)
    /\ LET r == dep_resolve(stacks_dict, stacks_dict[idx].name, resolved, seen)
       IN /\ resolved' = r.resolved
          /\ seen' = r.seen
          /\ error' = NoError
          /\ idx' = idx + 1
          /\ pc' = IF idx' > Len(stacks_dict) THEN "sort" ELSE "resolve"
    /\ UNCHANGED <<dirs, manifests, json_files, stacks_dict, passes,
                   sorted_nodes, visit_calls, stdout>>

\* One iteration of "for dep in stacks_dict.values(): dep.dep_resolve(resolved)".
Resolve ==
    /\ pc = "resolve"
    /\ idx <= Len(stacks_dict)
    /\ LET r == dep_resolve(stacks_dict, stacks_dict[idx].name, resolved, seen)
       IN /\ resolved' = r.resolved
          /\ seen' = r.seen
          /\ error' = r.error
          /\ idx' = idx + 1
          /\ pc' = IF r.error # NoError THEN "error"
                   ELSE IF idx' > Len(stacks_dict) THEN "sort" ELSE "resolve"
    /\ UNCHANGED <<dirs, manifests, json_files, stacks_dict, passes,
                   sorted_nodes, visit_calls, stdout>>

\* sorted_nodes = topological_sort(stacks_dict.values())
Sort ==
    /\ pc = "sort"
    /\ LET st == topological_sort(stacks_dict)
       IN /\ sorted_nodes' = st.sorted_nodes
          /\ visit_calls' = st.calls
    /\ pc' = "print"
    /\ UNCHANGED <<dirs, manifests, json_files, stacks_dict, resolved, seen,
                   idx, passes, stdout, error>>

\* print(json.dumps([node.name for node in sorted_nodes]))
Emit ==
    /\ pc = "print"
    /\ stdout' = Append(stdout, sorted_nodes)
    /\ pc' = "done"
    /\ UNCHANGED <<dirs, manifests, json_files, stacks_dict, resolved, seen,
                   idx, passes, sorted_nodes, visit_calls, error>>

Next == Ingest \/ Resolve \/ Sort \/ Emit

Spec == Init /\ [][Next]_vars

----------------------------------------------------------------------------
\* The functions used as a library: the graph is built as above, then a
\* caller runs the resolution pass again with a new resolved list, and
\* sorts whatever graph was built.

\* "resolved = []" and the resolution loop once more, in the same process:
\* the default argument of dep_resolve is the list of the earlier passes.
Restart ==
    /\ pc = "sort"
    /\ Len(stacks_dict) > 0
    /\ passes < MaxPasses
    /\ passes' = passes + 1
    /\ resolved' = <<>>
    /\ idx' = 1
    /\ pc' = "resolve"
    /\ UNCHANGED <<dirs, manifests, json_files, stacks_dict, seen,
                   sorted_nodes, visit_calls, stdout, error>>

\* topological_sort(stacks_dict.values()) on the graph as built, whether or
\* not a resolution pass has accepted it.
QuerySort ==
    /\ json_files = {}
    /\ error.kind \in {"none", "Circular reference detected"}
    /\ Len(stacks_dict) > 0
    /\ visit_calls = 0
    /\ LET st == topological_sort(stacks_dict)
       IN /\ sorted_nodes' = st.sorted_nodes
          /\ visit_calls' = st.calls
    /\ UNCHANGED <<dirs, manifests, json_files, stacks_dict, resolved, seen,
                   idx, passes, stdout, error, pc>>

NextQuery == Ingest \/ Resolve \/ Restart \/ QuerySort

SpecQuery == Init /\ [][NextQuery]_vars

----------------------------------------------------------------------------
\* The graph, for stating the properties

Succ(sd, name) ==
    IF Has(sd, name)
    THEN {NodeOf(sd, name).edges[j] : j \in 1..Len(NodeOf(sd, name).edges)}
    ELSE {}

EdgeSet(sd) == {<<a, b>> \in Keys(sd) \X Stacks : b \in Succ(sd, a)}

RECURSIVE Closure(_, _)
Closure(sd, S) ==
    LET T == S \cup UNION {Succ(sd, n) : n \in S}
    IN IF T = S THEN S ELSE Closure(sd, T)

\* The nodes reached from name over one edge or more.
Reach(sd, name) == Closure(sd, Succ(sd, name))

HasCycle(sd) == \E n \in Keys(sd) : n \in Reach(sd, n)

\* b occurs in out, before every occurrence of a.
Before(out, b, a) ==
    \E j \in 1..Len(out) :
        /\ out[j] = b
        /\ \A i \in 1..Len(out) : out[i] = a => j < i

EachOnce(sd, out) ==
    /\ Len(out) = Len(sd)
    /\ \A n \in Keys(sd) : Count(n, out) = 1

IsDeployOrder(sd, out) ==
    /\ EachOnce(sd, out)
    /\ \A ab \in EdgeSet(sd) : Before(out, ab[2], ab[1])

IsPrefix(s, t) ==
    /\ Len(s) <= Len(t)
    /\ \A i \in 1..Len(s) : s[i] = t[i]

Built == json_files = {} /\ error.kind \in {"none", "Circular reference detected"}

----------------------------------------------------------------------------
\* C1: on every acyclic graph built by ingestion, topological_sort returns
\* every node exactly once, and every dependency before each node that
\* depends on it.
C1_SortOrdersAcyclicGraph ==
    (visit_calls > 0 /\ ~HasCycle(stacks_dict))
        => IsDeployOrder(stacks_dict, sorted_nodes)

\* An acyclic graph of three nodes with a shared dependency and a repeated
\* edge has been sorted.
C1_Witness ==
    /\ visit_calls > 0
    /\ ~HasCycle(stacks_dict)
    /\ Len(stacks_dict) = 3
    /\ \E n \in Keys(stacks_dict) :
          /\ Cardinality(Succ(stacks_dict, n)) = 2
          /\ Len(NodeOf(stacks_dict, n).edges) = 3
    /\ \E n \in Keys(stacks_dict) : Len(NodeOf(stacks_dict, n).edges) = 1

\* C2: on a graph with a cycle the resolution pass of the program never
\* completes normally: it is still running, or it has failed with
\* "Circular reference detected".
C2_CycleIsRejected ==
    (Built /\ HasCycle(stacks_dict))
        => \/ pc = "resolve" /\ idx <= Len(stacks_dict) /\ error = NoError
           \/ pc = "error" /\ error.kind = "Circular reference detected"

\* A cycle longer than two edges was rejected: the error names two distinct
\* nodes, and the second does not depend on the first directly.
C2_Witness ==
    /\ pc = "error"
    /\ error.kind = "Circular reference detected"
    /\ error.n # error.e
    /\ error.n \notin Succ(stacks_dict, error.e)

\* C3: a dependency that is no directory ends the ingestion with "Unknown
\* dependency detected" at that dependency before its edge is added, so no
\* edge ever leads to a node whose valid_dir is false.
C3_EdgeTargetsExist ==
    /\ \A i \in 1..Len(stacks_dict) :
          /\ stacks_dict[i].valid_dir = (stacks_dict[i].name \in dirs)
          /\ ~stacks_dict[i].valid_dir
                => /\ pc = "error"
                   /\ error = UnknownDependency(stacks_dict[i].name, error.n)
                   /\ i = Len(stacks_dict)
    /\ \A ab \in EdgeSet(stacks_dict) :
          Has(stacks_dict, ab[2]) /\ NodeOf(stacks_dict, ab[2]).valid_dir

\* An ingestion failed at a missing dependency after it had added an edge.
C3_Witness ==
    /\ error.kind = "Unknown dependency detected"
    /\ error.e \notin dirs
    /\ Len(NodeOf(stacks_dict, error.n).edges) >= 1

\* C4 as stated: a failed ingestion leaves the nodes and the edge lists as
\* they were before it.
C4_NoPartialMutation ==
    [][(error = NoError /\ error'.kind = "Unknown dependency detected")
          => stacks_dict' = stacks_dict]_vars

\* C4 as amended: a failed ingestion adds no edge to the missing dependency
\* and removes or changes nothing that was there; what it added before the
\* failure (the stack's node, nodes and edges of the dependencies listed
\* earlier, the node of the missing dependency) remains.
C4_NoDanglingEdge ==
    [][(error = NoError /\ error'.kind = "Unknown dependency detected")
          => /\ IsPrefix(NodeNames(stacks_dict), NodeNames(stacks_dict'))
             /\ \A i \in 1..Len(stacks_dict) :
                   /\ stacks_dict'[i].valid_dir = stacks_dict[i].valid_dir
                   /\ IsPrefix(stacks_dict[i].edges, stacks_dict'[i].edges)
                   /\ stacks_dict[i].name # error'.n
                         => stacks_dict'[i].edges = stacks_dict[i].edges
             /\ \A i \in 1..Len(stacks_dict') :
                   ~In(error'.e, stacks_dict'[i].edges)
             /\ Has(stacks_dict', error'.e)
             /\ ~NodeOf(stacks_dict', error'.e).valid_dir]_vars

\* A failed ingestion has left the node of the missing dependency and an
\* edge it added before the failure.
C4_Witness ==
    /\ error.kind = "Unknown dependency detected"
    /\ Has(stacks_dict, error.e)
    /\ Len(NodeOf(stacks_dict, error.n).edges) >= 1
    /\ Len(stacks_dict) = 3

\* C5: every stack directory, also one without a manifest that no manifest
\* names, is in the printed order exactly once.
C5_StandaloneStackIsListed ==
    stdout # <<>>
        => /\ \A d \in dirs : Count(d, stdout[1]) = 1
           /\ Len(stdout[1]) = Cardinality(dirs \cup Keys(stacks_dict))

\* C6: on an acyclic graph a later resolution pass, started with a new
\* resolved list, raises no "Circular reference detected" either.
C6_LaterPassSucceeds ==
    (passes > 1 /\ ~HasCycle(stacks_dict))
        => error.kind # "Circular reference detected"

\* C7: after a complete resolution pass resolved holds every node exactly
\* once.
C7_ResolvedHoldsEachNodeOnce ==
    pc \in {"sort", "print", "done"} => EachOnce(stacks_dict, resolved)

\* C8: an ordering is printed at most once, only when every manifest was
\* ingested and the resolution pass went over all nodes without an
\* exception, and it is a deployment order of the graph; a run that raised
\* has stopped and printed nothing.
C8_OutputOnlyAfterAllStages ==
    /\ Len(stdout) <= 1
    /\ stdout # <<>>
          => /\ pc = "done"
             /\ error = NoError
             /\ json_files = {}
             /\ manifests \subseteq Keys(stacks_dict)
             /\ idx > Len(stacks_dict)
             /\ \A n \in Keys(stacks_dict) : In(n, resolved)
             /\ IsDeployOrder(stacks_dict, stdout[1])
    /\ (error # NoError) = (pc = "error")
    /\ pc = "error" => stdout = <<>> /\ ~ENABLED Next

\* An ordering of three stacks with dependencies among them was printed.
C8_Witness ==
    /\ stdout # <<>>
    /\ Len(stdout[1]) = 3
    /\ TotalEdges(stacks_dict) >= 2

\* C9: in the first pass "Circular reference detected: N -> E" is raised
\* only on a graph with a cycle, N -> E is an edge and N is reached from E.
C9_ReportedCycleIsReal ==
    error.kind = "Circular reference detected"
        => /\ HasCycle(stacks_dict)
           /\ error.e \in Succ(stacks_dict, error.n)
           /\ error.n = error.e \/ error.n \in Reach(stacks_dict, error.e)

\* A cycle was reported by a later top-level call of the pass, after nodes
\* had been resolved.
C9_Witness ==
    /\ error.kind = "Circular reference detected"
    /\ idx >= 3
    /\ resolved # <<>>
    /\ error.n # error.e

\* C10: on any graph, cyclic or not, topological_sort ends having made at
\* most one call of visit per node and per edge, and returns every node
\* exactly once.
C10_SortVisitsAreBounded ==
    visit_calls > 0
        => /\ EachOnce(stacks_dict, sorted_nodes)
           /\ visit_calls <= Len(stacks_dict) + TotalEdges(stacks_dict)

\* A graph with a cycle was sorted.
C10_Witness ==
    /\ visit_calls > 0
    /\ HasCycle(stacks_dict)
    /\ Len(stacks_dict) = 3
    /\ TotalEdges(stacks_dict) = 4

============================================================================
